---- MODULE Spec2Model ----
(***************************************************************************)
(* Streaming writer of pymmcore-plus: TensorstoreOMEZarrHandler            *)
(* (src/src/pymmcore_plus/mda/handlers/_tensorstore_ome_zarr.py) together  *)
(* with the wait loop that drains the write futures (src/x.py).            *)
(*                                                                         *)
(* One acquisition thread calls prepare_sequence, new_array, frameReady,   *)
(* reset and flush one after the other; the storage engine completes the   *)
(* dispatched writes on its own, in any order (Spec).                      *)
(*                                                                         *)
(* The functions of the schema are also applied on their own to bounded    *)
(* sets of descriptions: the checks of prepare_sequence and _build_dims    *)
(* (SpecDims), and position_sizes (src/d.py), jagged_sizes (src/zz.py) and *)
(* _build_dims (SpecSizes).                                                *)
(***************************************************************************)
EXTENDS Integers, Sequences, FiniteSets, TLC

\* ---------------------------------------------------------------- bounds
\* frames written in one execution
MaxFrames == 2
\* arrays opened in one execution
MaxArrays == 2
\* largest size of an axis in the descriptions the functions are applied to
MaxAxisSize == 2
\* stage positions of the descriptions the size functions are applied to
MaxPositions == 2
MaxPathLen == 4
MaxRank == 2
MaxRounds == 3
MaxQueue == 2

\* ---------------------------------------------------------------- values
\* None for the store, the group path and a unit
None == 0
NoUnit == <<>>
\* magnitudes of units are kept in millionths (1e-6 is 1)
Micro == 1000000

\* useq.MDASequence as the handler reads it: sizes (ordered axis -> size, every
\* axis of the axis order present, 0 for an unused one), z_plan.step and
\* time_plan.interval in microseconds (-1: no such plan)
NoSeq == [sizes |-> <<>>, z_step |-> -1, t_interval |-> -1]
SeqTC ==
    [sizes |-> << <<"t", 2>>, <<"p", 0>>, <<"g", 0>>, <<"c", 1>>, <<"z", 0>> >>,
     z_step |-> -1, t_interval |-> 0]
SeqTGCZ ==
    [sizes |-> << <<"t", 2>>, <<"p", 0>>, <<"g", 2>>, <<"c", 2>>, <<"z", 2>> >>,
     z_step |-> 500000, t_interval |-> 3 * Micro]
SeqPC ==
    [sizes |-> << <<"t", 0>>, <<"p", 2>>, <<"g", 0>>, <<"c", 2>>, <<"z", 0>> >>,
     z_step |-> -1, t_interval |-> -1]
SeqInputs == {SeqTC, SeqTGCZ, SeqPC}

\* meta["image_infos"][0]
ImageInfo == [plane_shape |-> <<2, 2>>, pixel_size_um |-> Micro, dtype |-> "uint16"]

\* the chunks argument of the constructor: none given, and an override of the
\* chunk size of one axis
NoChunks == [k \in {} |-> 0]
ChunkInputs ==
    {NoChunks} \cup {[k \in {l} |-> 2] : l \in {"t", "c", "y"}}

\* event.index of the events the core delivers: an ordered axis -> offset map;
\* the events of the plan, events beyond its channels (c = 1), and the empty
\* index of an event that belongs to no plan
EventInputs ==
    {<<>>} \cup
    {<< <<"t", a>>, <<"c", b>> >> : a \in 0..1, b \in 0..1}

\* the path argument of the constructor
PathInputs == {None, 1}

VARIABLES
    _store,             \* id of the open array, None when no array is open
    _futures,           \* list of the write futures (ids into writes)
    _frame_metadatas,   \* list of (event, meta)
    _current_sequence,  \* the sequence handed over by prepare_sequence
    _dims,              \* list of _Dim of the last array built
    _group_path,        \* None for the in-memory location
    chunks,             \* the chunk sizes given to the constructor, by axis
    group_zarr,         \* the zarr.json files of the group (none, or the one written last)
    arrays,             \* storage engine: the arrays opened, by id
    writes,             \* storage engine: every write dispatched, by id
    pc,                 \* "idle", or "flush" while the wait loop runs
    fi,                 \* position of the wait loop in the list
    lastOp,             \* the call made last
    raised,             \* what that call raised ("none": it returned)
    nSince,             \* frameReady calls that returned since the last reset
    fn,                 \* the function applied on its own ("none": the writer runs)
    arg,                \* the description it was applied to
    ret                 \* what it returned

vars ==
    <<_store, _futures, _frame_metadatas, _current_sequence, _dims, _group_path,
      chunks, group_zarr, arrays, writes, pc, fi, lastOp, raised, nSince, fn, arg, ret>>

\* the variables of the functions applied on their own
callVars == <<fn, arg, ret>>

writerVars == <<_store, _futures, _frame_metadatas, _current_sequence, _dims>>
engineVars == <<arrays, writes, group_zarr>>

\* ---------------------------------------------------------------- helpers
RECURSIVE SizesGet(_, _)
\* seq.sizes.get(key), 0 when the key is absent
SizesGet(sizes, key) ==
    IF sizes = <<>> THEN 0
    ELSE IF Head(sizes)[1] = key THEN Head(sizes)[2]
    ELSE SizesGet(Tail(sizes), key)

\* seq.used_axes: the axes of the plan with a non-zero size
used_axes(seq) ==
    {seq.sizes[i][1] : i \in {j \in 1..Len(seq.sizes) : seq.sizes[j][2] # 0}}

\* self.chunks.get(key, default) as it would be if it returned the default
\* for every key
ChunksGet_ignores_chunks(key, default) == default

\* self.chunks.get(key, default)
ChunksGet(key, default) ==
    IF key \in DOMAIN chunks THEN chunks[key] ELSE default

\* timedelta.seconds of an interval given in microseconds: the seconds field
\* of the interval, whole seconds without the days and without the
\* microseconds
timedelta_seconds(interval) == (interval \div Micro) % 86400

\* _get_unit(k, seq); scales are in millionths
_get_unit(k, seq) ==
    IF k = "z" /\ seq.z_step # -1 THEN <<seq.z_step, "um">>
    ELSE IF k = "t" /\ seq.t_interval # -1
        THEN LET intvl == timedelta_seconds(seq.t_interval)
             IN IF intvl # 0 THEN <<intvl * Micro, "s">>
                ELSE <<1, "s">>
    ELSE NoUnit

\* _Dim(label, size, unit, chunk_size)
_Dim(label, size, unit, chunk_size) ==
    [label |-> label, size |-> size, unit |-> unit, chunk_size |-> chunk_size]

RECURSIVE SeqDims(_, _)
\* the loop of _build_dims over seq.sizes
SeqDims(sizes, seq) ==
    IF sizes = <<>> THEN <<>>
    ELSE LET key == Head(sizes)[1]
             nt == SizesGet(seq.sizes, key)
         IN (IF nt # 0
             THEN <<_Dim(key, nt, _get_unit(key, seq), ChunksGet(key, 1))>>
             ELSE <<>>) \o SeqDims(Tail(sizes), seq)

\* _build_dims(seq, meta)
_build_dims(seq, img_info) ==
    LET px_unit == <<img_info.pixel_size_um, "um">>
        ny == img_info.plane_shape[1]
        nx == img_info.plane_shape[2]
        y == _Dim("y", ny, px_unit, ChunksGet("y", -1))
        x == _Dim("x", nx, px_unit, ChunksGet("x", -1))
    IN SeqDims(seq.sizes, seq) \o <<y, x>>

\* the domain of the array opened for a list of dims: label -> size
Domain(dims) ==
    [l \in {dims[i].label : i \in 1..Len(dims)} |->
        dims[CHOOSE i \in 1..Len(dims) : dims[i].label = l].size]

\* the index as it would be if only the first key of the event were used
TsIndex_first_key(index) ==
    [l \in {index[1][1]} |-> index[1][2]]

\* ts.d[keys][values]: the offsets selected, by dimension label
TsIndex(index) ==
    [l \in {index[i][1] : i \in 1..Len(index)} |->
        index[CHOOSE i \in 1..Len(index) : index[i][1] = l][2]]

\* store[ts_index] is inside the array: known labels, offsets below the size
IndexValid(idx, domain) ==
    \A l \in DOMAIN idx : l \in DOMAIN domain /\ idx[l] < domain[l]

\* the frames of the array a write at idx covers (the planes are written whole)
FrameLabels(domain) == DOMAIN domain \ {"y", "x"}
MaxSize(domain) ==
    CHOOSE n \in {domain[l] : l \in DOMAIN domain} :
        \A l \in DOMAIN domain : domain[l] <= n
Cells(domain) ==
    {c \in [FrameLabels(domain) -> 0..MaxSize(domain) - 1] :
        \A l \in FrameLabels(domain) : c[l] < domain[l]}
Region(idx, domain) ==
    {c \in Cells(domain) : \A l \in DOMAIN idx : c[l] = idx[l]}

\* ---------------------------------------------------------------- Init
\* __init__
InitWriter ==
    /\ _store = None
    /\ _futures = <<>>
    /\ _frame_metadatas = <<>>
    /\ _current_sequence = NoSeq
    /\ _dims = <<>>
    /\ _group_path \in PathInputs
    /\ chunks \in ChunkInputs
    /\ group_zarr = <<>>
    /\ arrays = <<>>
    /\ writes = <<>>
    /\ pc = "idle"
    /\ fi = 0
    /\ lastOp = "init"
    /\ raised = "none"
    /\ nSince = 0

\* the writer is constructed without chunks, no function is applied on its own
Init ==
    /\ InitWriter
    /\ chunks = NoChunks
    /\ fn = "none"
    /\ arg = <<>>
    /\ ret = <<>>

\* ---------------------------------------------------------------- reset
\* reset as it would be if it dropped the store and kept the two lists
reset_keeps_lists ==
    /\ pc = "idle"
    /\ _store' = None
    /\ nSince' = 0
    /\ lastOp' = "reset"
    /\ raised' = "none"
    /\ UNCHANGED <<callVars, _futures, _frame_metadatas, _current_sequence, _dims,
                   _group_path, chunks, engineVars, pc, fi>>

\* reset(sequence)
reset ==
    /\ pc = "idle"
    /\ _store' = None
    /\ _futures' = <<>>
    /\ _frame_metadatas' = <<>>
    /\ nSince' = 0
    /\ lastOp' = "reset"
    /\ raised' = "none"
    /\ UNCHANGED <<callVars, _current_sequence, _dims, _group_path, chunks, engineVars, pc, fi>>

\* ---------------------------------------------------------------- prepare_sequence
\* the checks of prepare_sequence as they would be without the check of the
\* axes used
prepare_sequence_checks_count_only(seq) ==
    IF Cardinality(used_axes(seq)) > 3 THEN "ValueError" ELSE "none"

\* the checks of prepare_sequence as they would be if nothing were checked
prepare_sequence_checks_none(seq) == "none"

\* the two checks of prepare_sequence: what they raise ("none": both pass)
prepare_sequence_checks(seq) ==
    IF Cardinality(used_axes(seq)) > 3
    THEN "ValueError"
    ELSE IF \E x \in used_axes(seq) : x \notin {"t", "c", "z"}
    THEN "ValueError"
    ELSE "none"

\* super().prepare_sequence(seq, meta): the preparation of the base class, which
\* opens no array and writes no group descriptor
super_prepare_sequence == UNCHANGED engineVars

\* prepare_sequence as it would be if the store were created before the checks
prepare_sequence_creates_first ==
    /\ pc = "idle"
    /\ \E seq \in SeqInputs :
        /\ raised' = prepare_sequence_checks(seq)
        /\ _current_sequence' = seq
        /\ group_zarr' = IF _group_path # None
                         THEN <<[zarr_format |-> 3, node_type |-> "group"]>>
                         ELSE group_zarr
    /\ lastOp' = "prepare_sequence"
    /\ UNCHANGED <<callVars, _store, _futures, _frame_metadatas, _dims, _group_path, chunks,
                   arrays, writes, pc, fi, nSince>>

\* prepare_sequence(seq, meta): the call of the base class, the two checks, then
\* the sequence is handed on to the creation of the store
prepare_sequence ==
    /\ pc = "idle"
    /\ super_prepare_sequence
    /\ \E seq \in SeqInputs :
        /\ raised' = prepare_sequence_checks(seq)
        /\ IF prepare_sequence_checks(seq) = "none"
           THEN _current_sequence' = seq
           ELSE UNCHANGED _current_sequence
    /\ lastOp' = "prepare_sequence"
    /\ UNCHANGED <<callVars, _store, _futures, _frame_metadatas, _dims, _group_path, chunks,
                   pc, fi, nSince>>

\* ---------------------------------------------------------------- new_array
\* self._array_path, the path of the array below the group
_array_path == "0"

\* _Dim.ome_dim_type
ome_dim_type(dim) ==
    CASE dim.label \in {"y", "x", "z"} -> "space"
      [] dim.label = "t" -> "time"
      [] dim.label = "c" -> "channel"
      [] OTHER -> "other"

\* _Dim.ome_unit
ome_unit(dim) ==
    IF dim.unit = NoUnit THEN "unknown"
    ELSE CASE dim.unit[2] = "um" -> "micrometer"
           [] dim.unit[2] = "ml" -> "milliliter"
           [] dim.unit[2] = "s" -> "second"
           [] OTHER -> "unknown"

\* _Dim.ome_scale (1.0 when there is no unit)
ome_scale(dim) ==
    IF dim.unit = NoUnit THEN Micro ELSE dim.unit[1]

\* _ome_axes_scales as it would be if only the dimensions with a unit got a
\* scale
_ome_axes_scales_scales_of_units(dims) ==
    [axes |-> [i \in 1..Len(dims) |->
                  [name |-> dims[i].label, type |-> ome_dim_type(dims[i]),
                   unit |-> ome_unit(dims[i])]],
     scales |-> LET withUnit == SelectSeq(dims, LAMBDA d : d.unit # NoUnit)
                IN [i \in 1..Len(withUnit) |-> ome_scale(withUnit[i])]]

\* _ome_axes_scales(dims): the axes and the scales, in the order of dims
_ome_axes_scales(dims) ==
    [axes |-> [i \in 1..Len(dims) |->
                  [name |-> dims[i].label, type |-> ome_dim_type(dims[i]),
                   unit |-> ome_unit(dims[i])]],
     scales |-> [i \in 1..Len(dims) |-> ome_scale(dims[i])]]

\* _group_meta()
_group_meta(dims) ==
    LET ax == _ome_axes_scales(dims)
        scale0 == [axes |-> ax.axes,
                   datasets |-> << [path |-> _array_path,
                                    coordinateTransformations |->
                                        << [scale |-> ax.scales, type |-> "scale"] >>] >>]
    IN [zarr_format |-> 3, node_type |-> "group",
        attributes |-> [ome |-> [version |-> "0.5", multiscales |-> <<scale0>>]]]

\* _create_group(): zarr.json is written when the location is persistent
_create_group(dims) ==
    IF _group_path # None THEN <<_group_meta(dims)>> ELSE group_zarr

\* new_array as it would be if the array were opened before the group
\* descriptor is written
new_array_opens_first ==
    /\ pc = "idle"
    /\ lastOp' = "new_array"
    /\ IF _current_sequence = NoSeq
       THEN /\ raised' = "AttributeError"
            /\ UNCHANGED <<_store, _dims, engineVars>>
       ELSE LET dims == _build_dims(_current_sequence, ImageInfo) IN
            /\ _dims' = dims
            /\ \/ /\ Len(arrays) < MaxArrays
                  /\ arrays' = Append(arrays,
                        [domain |-> Domain(dims),
                         data |-> [c \in Cells(Domain(dims)) |-> 0]])
                  /\ _store' = Len(arrays) + 1
                  /\ \/ /\ group_zarr' = _create_group(dims)
                        /\ raised' = "none"
                     \/ /\ _group_path # None
                        /\ raised' = "OSError"
                        /\ UNCHANGED group_zarr
               \/ /\ raised' = "OpenError"
                  /\ UNCHANGED <<_store, arrays, group_zarr>>
            /\ UNCHANGED writes
    /\ UNCHANGED <<callVars, _futures, _frame_metadatas, _current_sequence, _group_path, chunks,
                   pc, fi, nSince>>

\* new_array(...): _create_spec, _create_group, which the file system may
\* refuse, then ts.open(spec).result(), which the engine may refuse
new_array ==
    /\ pc = "idle"
    /\ lastOp' = "new_array"
    /\ IF _current_sequence = NoSeq
       THEN /\ raised' = "AttributeError"
            /\ UNCHANGED <<_store, _dims, engineVars>>
       ELSE LET dims == _build_dims(_current_sequence, ImageInfo) IN
            /\ _dims' = dims
            /\ \/ /\ group_zarr' = _create_group(dims)
                  /\ \/ /\ Len(arrays) < MaxArrays
                        /\ arrays' = Append(arrays,
                              [domain |-> Domain(dims),
                               data |-> [c \in Cells(Domain(dims)) |-> 0]])
                        /\ _store' = Len(arrays) + 1
                        /\ raised' = "none"
                     \/ /\ raised' = "OpenError"
                        /\ UNCHANGED <<_store, arrays>>
               \/ /\ _group_path # None
                  /\ raised' = "OSError"
                  /\ UNCHANGED <<group_zarr, _store, arrays>>
            /\ UNCHANGED writes
    /\ UNCHANGED <<callVars, _futures, _frame_metadatas, _current_sequence, _group_path, chunks,
                   pc, fi, nSince>>

\* ---------------------------------------------------------------- frameReady
\* frameReady as it would be if it stored the metadata before it wrote the frame
frameReady_metadata_first ==
    /\ pc = "idle"
    /\ Len(writes) < MaxFrames
    /\ lastOp' = "frameReady"
    /\ \E index \in EventInputs :
        LET frame == Len(writes) + 1
            event == [index |-> index]
            meta == Len(writes) + 1
        IN
        /\ _frame_metadatas' = Append(_frame_metadatas, <<event, meta>>)
        /\ IF index = <<>>
           THEN /\ raised' = "ValueError"
                /\ UNCHANGED <<_futures, writes, nSince>>
           ELSE IF _store = None
           THEN /\ raised' = "TypeError"
                /\ UNCHANGED <<_futures, writes, nSince>>
           ELSE IF ~IndexValid(TsIndex(index), arrays[_store].domain)
           THEN /\ raised' = "IndexError"
                /\ UNCHANGED <<_futures, writes, nSince>>
           ELSE /\ writes' = Append(writes,
                       [store |-> _store, idx |-> TsIndex(index),
                        frame |-> frame, st |-> "inflight", at |-> 0])
                /\ _futures' = Append(_futures, Len(writes) + 1)
                /\ nSince' = nSince + 1
                /\ raised' = "none"
    /\ UNCHANGED <<callVars, _store, _current_sequence, _dims, _group_path, chunks, group_zarr,
                   arrays, pc, fi>>

\* frameReady as it would be if it waited for the result of the write
\* (write_future.result() right after the write)
frameReady_waits ==
    /\ pc = "idle"
    /\ Len(writes) < MaxFrames
    /\ lastOp' = "frameReady"
    /\ \E index \in EventInputs :
        LET frame == Len(writes) + 1
            event == [index |-> index]
            meta == Len(writes) + 1
            idx == TsIndex(index)
            rank == Cardinality({h \in 1..Len(writes) : writes[h].st # "inflight"}) + 1
        IN
        IF index = <<>>
        THEN /\ raised' = "ValueError"
             /\ UNCHANGED <<_futures, _frame_metadatas, writes, arrays, nSince>>
        ELSE IF _store = None
        THEN /\ raised' = "TypeError"
             /\ UNCHANGED <<_futures, _frame_metadatas, writes, arrays, nSince>>
        ELSE IF ~IndexValid(idx, arrays[_store].domain)
        THEN /\ raised' = "IndexError"
             /\ UNCHANGED <<_futures, _frame_metadatas, writes, arrays, nSince>>
        ELSE \/ /\ writes' = Append(writes,
                        [store |-> _store, idx |-> idx, frame |-> frame,
                         st |-> "ok", at |-> rank])
                /\ arrays' = [arrays EXCEPT ![_store].data =
                        [c \in DOMAIN @ |->
                            IF c \in Region(idx, arrays[_store].domain)
                            THEN frame ELSE @[c]]]
                /\ _futures' = Append(_futures, Len(writes) + 1)
                /\ _frame_metadatas' = Append(_frame_metadatas, <<event, meta>>)
                /\ nSince' = nSince + 1
                /\ raised' = "none"
             \/ /\ writes' = Append(writes,
                        [store |-> _store, idx |-> idx, frame |-> frame,
                         st |-> "failed", at |-> rank])
                /\ raised' = "WriteFailure"
                /\ UNCHANGED <<_futures, _frame_metadatas, arrays, nSince>>
    /\ UNCHANGED <<callVars, _store, _current_sequence, _dims, _group_path, chunks, group_zarr,
                   pc, fi>>

\* frameReady(frame, event, meta)
frameReady ==
    /\ pc = "idle"
    /\ Len(writes) < MaxFrames
    /\ lastOp' = "frameReady"
    /\ \E index \in EventInputs :
        \* every frame the core delivers is a new image with newer metadata
        LET frame == Len(writes) + 1
            event == [index |-> index]
            meta == Len(writes) + 1
        IN
        IF index = <<>>
        THEN \* zip(*event.index.items()) yields nothing to unpack
             /\ raised' = "ValueError"
             /\ UNCHANGED <<_futures, _frame_metadatas, writes, nSince>>
        ELSE IF _store = None
        THEN \* None is not subscriptable
             /\ raised' = "TypeError"
             /\ UNCHANGED <<_futures, _frame_metadatas, writes, nSince>>
        ELSE IF ~IndexValid(TsIndex(index), arrays[_store].domain)
        THEN /\ raised' = "IndexError"
             /\ UNCHANGED <<_futures, _frame_metadatas, writes, nSince>>
        ELSE /\ writes' = Append(writes,
                    [store |-> _store, idx |-> TsIndex(index),
                     frame |-> frame, st |-> "inflight", at |-> 0])
             /\ _futures' = Append(_futures, Len(writes) + 1)
             /\ _frame_metadatas' = Append(_frame_metadatas, <<event, meta>>)
             /\ nSince' = nSince + 1
             /\ raised' = "none"
    /\ UNCHANGED <<callVars, _store, _current_sequence, _dims, _group_path, chunks, group_zarr,
                   arrays, pc, fi>>

\* ---------------------------------------------------------------- storage engine
\* the writes that are done, successfully or not
Resolved == {h \in 1..Len(writes) : writes[h].st # "inflight"}

\* a write in flight completes: its frame is in the array
WriteCompletes ==
    \E h \in 1..Len(writes) :
        /\ writes[h].st = "inflight"
        /\ writes' = [writes EXCEPT ![h].st = "ok",
                                    ![h].at = Cardinality(Resolved) + 1]
        /\ arrays' = [arrays EXCEPT ![writes[h].store].data =
                [c \in DOMAIN @ |->
                    IF c \in Region(writes[h].idx, arrays[writes[h].store].domain)
                    THEN writes[h].frame ELSE @[c]]]
        /\ UNCHANGED <<callVars, writerVars, _group_path, chunks, group_zarr, pc, fi, lastOp,
                       raised, nSince>>

\* a write in flight fails: the future holds the error
WriteFails ==
    \E h \in 1..Len(writes) :
        /\ writes[h].st = "inflight"
        /\ writes' = [writes EXCEPT ![h].st = "failed",
                                    ![h].at = Cardinality(Resolved) + 1]
        /\ UNCHANGED <<callVars, writerVars, _group_path, chunks, group_zarr, arrays, pc, fi,
                       lastOp, raised, nSince>>

\* ---------------------------------------------------------------- flush
\* the wait loop is entered
flush ==
    /\ pc = "idle"
    /\ pc' = "flush"
    /\ fi' = 1
    /\ lastOp' = "flush"
    /\ raised' = "none"
    /\ UNCHANGED <<callVars, writerVars, _group_path, chunks, engineVars, nSince>>

\* the wait as it would be if it looked at the future without waiting for it
flush_result_no_wait ==
    /\ pc = "flush"
    /\ fi <= Len(_futures)
    /\ IF writes[_futures[fi]].st # "failed"
       THEN /\ fi' = fi + 1
            /\ UNCHANGED <<pc, raised>>
       ELSE /\ raised' = "WriteFailure"
            /\ pc' = "idle"
            /\ fi' = 0
    /\ UNCHANGED <<callVars, writerVars, _group_path, chunks, engineVars, lastOp, nSince>>

\* write_future.result(): returns once the future is done, raises its error
flush_result ==
    /\ pc = "flush"
    /\ fi <= Len(_futures)
    /\ writes[_futures[fi]].st # "inflight"
    /\ IF writes[_futures[fi]].st = "ok"
       THEN /\ fi' = fi + 1
            /\ UNCHANGED <<pc, raised>>
       ELSE /\ raised' = "WriteFailure"
            /\ pc' = "idle"
            /\ fi' = 0
    /\ UNCHANGED <<callVars, writerVars, _group_path, chunks, engineVars, lastOp, nSince>>

\* the loop is over
flush_return ==
    /\ pc = "flush"
    /\ fi > Len(_futures)
    /\ pc' = "idle"
    /\ fi' = 0
    /\ UNCHANGED <<callVars, writerVars, _group_path, chunks, engineVars, lastOp, raised, nSince>>

\* ---------------------------------------------------------------- properties
\* flush has ended, by returning or by raising
FlushEnded == lastOp = "flush" /\ pc = "idle"
\* flush has returned without raising
FlushReturned == FlushEnded /\ raised = "none"

\* the futures of the list
Pending == {_futures[k] : k \in 1..Len(_futures)}
\* its futures that are still in flight, and those that failed
InFlight == {h \in Pending : writes[h].st = "inflight"}
Failed == {h \in Pending : writes[h].st = "failed"}

\* one metadata entry per future of the list, the k-th entry being the one of
\* the k-th frame written, later frames after earlier ones
MetadataInArrivalOrder ==
    /\ Len(_frame_metadatas) = Len(_futures)
    /\ \A k \in 1..Len(_futures) :
        /\ _frame_metadatas[k][2] = writes[_futures[k]].frame
        /\ writes[_futures[k]].idx = TsIndex(_frame_metadatas[k][1].index)
    /\ \A j, k \in 1..Len(_frame_metadatas) :
        j < k => _frame_metadatas[j][2] < _frame_metadatas[k][2]

ReportedFailures == IF raised = "WriteFailure" THEN 1 ELSE 0

\* C2: when flush ends it has waited on every future of the list, also when
\* some of them failed, and it reports the failures of all the failed writes.
C2_FlushWaitsOnAllAndReportsAll ==
    FlushEnded => (InFlight = {} /\ Cardinality(Failed) = ReportedFailures)

\* C3: reset is refused while a write is still in flight, so no reset that
\* returned normally has left a write in flight behind.
C3_ResetRefusedWhilePending ==
    (lastOp = "reset" /\ raised = "none") =>
        \A h \in 1..Len(writes) : writes[h].st # "inflight"

\* C4: while no array is open the list of pending writes (and the metadata
\* list) is empty, and a frameReady called then has failed.
C4_NoArrayNoPending ==
    _store = None =>
        /\ _futures = <<>>
        /\ _frame_metadatas = <<>>
        /\ lastOp = "frameReady" => raised # "none"

\* frameReady was called after a reset that followed a write, and it failed
C4_Witness ==
    /\ _store = None
    /\ lastOp = "frameReady"
    /\ raised = "TypeError"
    /\ Len(writes) > 0

\* C5: the two lists have the same length, the number of frameReady calls that
\* returned since the last reset, and their k-th entries belong to the same
\* frame, later frames behind earlier ones.
C5_ListsGrowTogether ==
    /\ Len(_futures) = nSince
    /\ Len(_frame_metadatas) = nSince
    /\ \A k \in 1..nSince :
        /\ _frame_metadatas[k][2] = writes[_futures[k]].frame
        /\ k > 1 => _futures[k - 1] < _futures[k]

\* a frame was written, reset was called, and another frame was written
C5_Witness ==
    /\ lastOp = "frameReady"
    /\ raised = "none"
    /\ nSince = 1
    /\ Len(writes) = 2


\* C6: the step in which frameReady writes a frame leaves that write in flight
\* and changes the state of no earlier write: it has waited for none of them.
C6_FrameReadyWaitsForNoWrite ==
    [][Len(writes') = Len(writes) + 1 =>
        /\ writes'[Len(writes')].st = "inflight"
        /\ \A h \in 1..Len(writes) : writes'[h] = writes[h]]_vars

\* frameReady has returned and both writes, its own and the earlier one, are
\* still in flight
C6_Witness ==
    /\ lastOp = "frameReady"
    /\ raised = "none"
    /\ Len(_futures) = 2
    /\ \A h \in Pending : writes[h].st = "inflight"

\* C7: the failure of a write is raised by no call but flush; in particular no
\* frameReady call raises it.
C7_WriteFailureRaisedOnlyByFlush ==
    /\ lastOp = "frameReady" => raised # "WriteFailure"
    /\ raised = "WriteFailure" => lastOp = "flush"

\* frameReady has returned normally although a write of the list has failed
C7_Witness ==
    /\ lastOp = "frameReady"
    /\ raised = "none"
    /\ Failed # {}

\* C8: once every future of the list is done the wait loop of flush can always
\* go on (it ends), and when flush has ended no write of the list is still in
\* flight.
C8_FlushEndsWithNoWriteOutstanding ==
    /\ (pc = "flush" /\ InFlight = {}) => ENABLED (flush_result \/ flush_return)
    /\ FlushEnded => \A k \in 1..Len(_futures) : writes[_futures[k]].st # "inflight"

\* the events of the frames written have pairwise distinct indices
DistinctEventIndices ==
    \A j, k \in 1..Len(_frame_metadatas) :
        j # k => _frame_metadatas[j][1].index # _frame_metadatas[k][1].index

\* C9: when the frames were written at pairwise distinct indices, then after
\* flush the array holds every frame where it was written, in whatever order
\* the writes completed.
C9_DistinctIndicesSameContent ==
    (FlushReturned /\ DistinctEventIndices) =>
        \A h \in Pending :
            \A c \in Region(writes[h].idx, arrays[writes[h].store].domain) :
                arrays[writes[h].store].data[c] = writes[h].frame

\* two frames were written to one array at distinct indices, the second write
\* completed first, and flush has returned
C9_Witness ==
    /\ FlushReturned
    /\ Len(_futures) = 2
    /\ DistinctEventIndices
    /\ writes[_futures[1]].store = writes[_futures[2]].store
    /\ writes[_futures[1]].idx # writes[_futures[2]].idx
    /\ writes[_futures[2]].at = 1
    /\ writes[_futures[1]].at = 2

\* C10: after reset no array is open, the two lists are empty and no list of
\* dimension descriptors is left of the previous array.
C10_ResetDiscardsAllState ==
    lastOp = "reset" =>
        /\ _store = None
        /\ _futures = <<>>
        /\ _frame_metadatas = <<>>
        /\ _dims = <<>>

\* the names of the axes the group descriptor written last lists
GroupAxes ==
    LET axes == group_zarr[1].attributes.ome.multiscales[1].axes
    IN {axes[i].name : i \in 1..Len(axes)}

\* C15: with a persistent location, the step of new_array that opens an array
\* leaves the group descriptor of the dimension list of that array written (a
\* refused write of the descriptor opens no array), and the step that writes a
\* frame finds the descriptor of the dimensions of its array written.
C15_GroupWrittenBeforeOpen ==
    [][/\ (Len(arrays') = Len(arrays) + 1 /\ _group_path # None) =>
            /\ group_zarr' = <<_group_meta(_dims')>>
            /\ Domain(_dims') = arrays'[Len(arrays')].domain
       /\ (Len(writes') = Len(writes) + 1 /\ _group_path # None) =>
            /\ group_zarr # <<>>
            /\ GroupAxes = DOMAIN arrays[writes'[Len(writes')].store].domain]_vars

\* the group descriptor of the dimension list is written and the opening of
\* the array, which comes after it, was refused: there is no array yet
C15_Witness ==
    /\ _group_path # None
    /\ lastOp = "new_array"
    /\ raised = "OpenError"
    /\ arrays = <<>>
    /\ group_zarr = <<_group_meta(_dims)>>

\* ---------------------------------------------------------------- descriptions
\* axis orders a description may declare (MDASequence.axis_order): the default,
\* z before c, position first with c before t, and an order of three axes
AxisOrders ==
    { <<"t", "p", "g", "c", "z">>, <<"t", "p", "g", "z", "c">>,
      <<"p", "c", "t", "z">>, <<"t", "c", "z">> }

\* seq.sizes for an axis order: every axis of the order with a size
SizesOf(order) ==
    { [i \in 1..Len(order) |-> <<order[i], n[i]>>] :
        n \in [1..Len(order) -> 0..MaxAxisSize] }

\* z_plan.step and time_plan.interval of the descriptions
ZSteps == {-1, 500000}
TIntervals == {-1, 0, 100000, 3 * Micro}

\* the descriptions prepare_sequence and _build_dims are applied to
DescInputs ==
    { [sizes |-> sz, z_step |-> zs, t_interval |-> ti] :
        sz \in UNION {SizesOf(o) : o \in AxisOrders},
        zs \in ZSteps, ti \in TIntervals }

\* a description is drawn
InitDims ==
    /\ InitWriter
    /\ _group_path = None
    /\ fn = "none"
    /\ arg \in DescInputs
    /\ ret = <<>>

\* prepare_sequence is applied to the description: its checks
call_prepare_sequence ==
    /\ fn = "none"
    /\ fn' = "prepare_sequence"
    /\ ret' = prepare_sequence_checks(arg)
    /\ UNCHANGED <<arg, writerVars, _group_path, chunks, engineVars, pc, fi, lastOp,
                   raised, nSince>>

\* the description was accepted: _create_spec builds the dimension list
call_build_dims ==
    /\ fn = "prepare_sequence"
    /\ ret = "none"
    /\ fn' = "_build_dims"
    /\ ret' = _build_dims(arg, ImageInfo)
    /\ UNCHANGED <<arg, writerVars, _group_path, chunks, engineVars, pc, fi, lastOp,
                   raised, nSince>>

\* the rank of a dimension type in the order time, channel, other, space
TypeRank(type) ==
    CASE type = "time" -> 0
      [] type = "channel" -> 1
      [] type = "other" -> 2
      [] type = "space" -> 3

\* C11: the dimension list built for an accepted description, whatever axis
\* order it declares, has types that never decrease in the order time, channel,
\* other, space, and y and x are its last two entries, in that order.
C11_DimsOrderedByType ==
    fn = "_build_dims" =>
        /\ \A i, j \in 1..Len(ret) :
              i < j => TypeRank(ome_dim_type(ret[i])) <= TypeRank(ome_dim_type(ret[j]))
        /\ Len(ret) >= 2
        /\ ret[Len(ret) - 1].label = "y"
        /\ ret[Len(ret)].label = "x"

\* C12: prepare_sequence raises a schema violation whenever the description
\* uses more than three axes or an axis other than time, channel and z, and it
\* accepts every description whose used axes are among t, c and z.
C12_ChecksRejectAndAccept ==
    fn = "prepare_sequence" =>
        /\ Cardinality(used_axes(arg)) > 3 => ret = "ValueError"
        /\ used_axes(arg) \ {"t", "c", "z"} # {} => ret = "ValueError"
        /\ used_axes(arg) \subseteq {"t", "c", "z"} => ret = "none"

\* prepare_sequence has refused a description that uses the axes t, c, z and g
C12_Witness ==
    /\ fn = "prepare_sequence"
    /\ ret = "ValueError"
    /\ used_axes(arg) = {"t", "c", "z", "g"}

C14_AtMostFiveDims ==
    fn = "_build_dims" =>
        /\ Len(ret) <= 5
        /\ Len(ret) >= 2
        /\ \A i \in 1..Len(ret) - 2 : ret[i].label \in {"t", "c", "z"}
        /\ \A i, j \in 1..Len(ret) : i # j => ret[i].label # ret[j].label
        /\ <<ret[Len(ret) - 1].label, ret[Len(ret)].label>> = <<"y", "x">>

\* the list built for a description that uses t, c and z has five entries
C14_Witness ==
    /\ fn = "_build_dims"
    /\ Len(ret) = 5
    /\ used_axes(arg) = {"t", "c", "z"}

\* C22: a writer constructed without chunks gives y and x the chunk size -1 and
\* every other dimension the chunk size 1 in each list it builds; a chunk size
\* given for one axis is the chunk size of that axis and changes no other.
C22_ChunkDefaultsAndOverride ==
    fn = "_build_dims" =>
        \A i \in 1..Len(ret) :
            ret[i].chunk_size =
                IF ret[i].label \in DOMAIN chunks THEN chunks[ret[i].label]
                ELSE IF ret[i].label \in {"y", "x"} THEN -1
                ELSE 1

\* a list was built for a description with t and c by a writer constructed
\* with a chunk size of 2 for c
C22_Witness ==
    /\ fn = "_build_dims"
    /\ chunks = [k \in {"c"} |-> 2]
    /\ [i \in 1..Len(ret) |-> <<ret[i].label, ret[i].chunk_size>>] =
            << <<"t", 1>>, <<"c", 2>>, <<"y", -1>>, <<"x", -1>> >>

\* ---------------------------------------------------------------- _create_spec
\* the fields of _Dim, in the order of the named tuple
DimFields == <<"label", "size", "unit", "chunk_size">>

\* zip(*dims): one tuple per field of _Dim, in the order of the fields
ZipDims(dims) ==
    [n \in 1..Len(DimFields) |-> [i \in 1..Len(dims) |-> dims[i][DimFields[n]]]]

\* self.kvstore as the setter of group_path leaves it
kvstore ==
    IF _group_path = None THEN [url |-> "memory://"]
    ELSE [url |-> "file://", path |-> <<_group_path, _array_path>>]

\* the spec as it would be if a chunk size of -1 were replaced by the size of
\* its dimension before it is handed on
_create_spec_resolves_chunks(dims) ==
    LET cols == ZipDims(dims)
    IN [driver |-> "zarr3",
        kvstore |-> kvstore,
        schema |-> [domain |-> [shape |-> cols[2], labels |-> cols[1]],
                    dtype |-> ImageInfo.dtype,
                    chunk_layout |-> [chunk |-> [shape |->
                        [i \in 1..Len(dims) |->
                            IF cols[4][i] = -1 THEN cols[2][i] ELSE cols[4][i]]]],
                    dimension_units |-> cols[3]],
        create |-> TRUE,
        delete_existing |-> FALSE]

\* the dict _create_spec returns for the dimension list it has built:
\* labels, shape, units, chunk_shape = zip(*self._dims); the labels are
\* strings already, str leaves them as they are
_create_spec(dims) ==
    LET cols == ZipDims(dims)
        labels == cols[1]
        shape == cols[2]
        units == cols[3]
        chunk_shape == cols[4]
    IN [driver |-> "zarr3",
        kvstore |-> kvstore,
        schema |-> [domain |-> [shape |-> shape, labels |-> labels],
                    dtype |-> ImageInfo.dtype,
                    chunk_layout |-> [chunk |-> [shape |-> chunk_shape]],
                    dimension_units |-> units],
        create |-> TRUE,
        delete_existing |-> FALSE]

\* the description was accepted: _create_spec builds the dimension list, keeps
\* it and returns the spec
call_create_spec ==
    /\ fn = "prepare_sequence"
    /\ ret = "none"
    /\ fn' = "_create_spec"
    /\ _dims' = _build_dims(arg, ImageInfo)
    /\ ret' = _create_spec(_build_dims(arg, ImageInfo))
    /\ UNCHANGED <<arg, _store, _futures, _frame_metadatas, _current_sequence,
                   _group_path, chunks, engineVars, pc, fi, lastOp, raised, nSince>>

\* C23: the shape, the labels, the chunk shape and the dimension units of the
\* spec have one entry per dimension of the list, the i-th being the size, the
\* label, the chunk size and the unit of the i-th dimension; a chunk size of
\* -1 is passed on as -1 and a dimension without unit has none in the spec.
C23_SpecZipsDims ==
    fn = "_create_spec" =>
        LET schema == ret.schema IN
        /\ Len(schema.domain.shape) = Len(_dims)
        /\ Len(schema.domain.labels) = Len(_dims)
        /\ Len(schema.chunk_layout.chunk.shape) = Len(_dims)
        /\ Len(schema.dimension_units) = Len(_dims)
        /\ \A i \in 1..Len(_dims) :
            /\ schema.domain.shape[i] = _dims[i].size
            /\ schema.domain.labels[i] = _dims[i].label
            /\ schema.chunk_layout.chunk.shape[i] = _dims[i].chunk_size
            /\ schema.dimension_units[i] = _dims[i].unit
            /\ _dims[i].chunk_size = -1 => schema.chunk_layout.chunk.shape[i] = -1
            /\ _dims[i].unit = NoUnit => schema.dimension_units[i] = NoUnit

\* a spec was compiled for a list of five dimensions, the first with a unit,
\* the second without, the last two with the chunk size -1
C23_Witness ==
    /\ fn = "_create_spec"
    /\ Len(_dims) = 5
    /\ _dims[1].unit # NoUnit
    /\ _dims[2].unit = NoUnit
    /\ ret.schema.chunk_layout.chunk.shape[5] = -1
    /\ ret.schema.dimension_units[2] = NoUnit

\* _group_meta() for the dimension list _create_spec has kept
call_group_meta ==
    /\ fn = "_create_spec"
    /\ fn' = "_group_meta"
    /\ ret' = _group_meta(_dims)
    /\ UNCHANGED <<arg, writerVars, _group_path, chunks, engineVars, pc, fi,
                   lastOp, raised, nSince>>

\* C24: the group descriptor has zarr_format 3 and node_type "group", one
\* multiscales entry with one dataset whose path is the relative path of the
\* array, as many scales as axes, and the i-th axis and the i-th scale are
\* those of the i-th dimension of the list: its label, the type of the label,
\* the scale and the unit of its unit, or 1.0 and "unknown" when it has none.
C24_GroupMetaFollowsDims ==
    fn = "_group_meta" =>
        /\ ret.zarr_format = 3
        /\ ret.node_type = "group"
        /\ Len(ret.attributes.ome.multiscales) = 1
        /\ LET ms == ret.attributes.ome.multiscales[1] IN
            /\ Len(ms.datasets) = 1
            /\ ms.datasets[1].path = _array_path
            /\ Len(ms.datasets[1].coordinateTransformations) = 1
            /\ LET scale == ms.datasets[1].coordinateTransformations[1].scale IN
                /\ Len(scale) = Len(ms.axes)
                /\ Len(ms.axes) = Len(_dims)
                /\ \A i \in 1..Len(_dims) :
                    /\ ms.axes[i].name = _dims[i].label
                    /\ ms.axes[i].type =
                          (CASE _dims[i].label \in {"x", "y", "z"} -> "space"
                             [] _dims[i].label = "t" -> "time"
                             [] _dims[i].label = "c" -> "channel"
                             [] OTHER -> "other")
                    /\ _dims[i].unit = NoUnit =>
                          scale[i] = Micro /\ ms.axes[i].unit = "unknown"
                    /\ _dims[i].unit # NoUnit =>
                          /\ scale[i] = _dims[i].unit[1]
                          /\ _dims[i].unit[2] = "um" => ms.axes[i].unit = "micrometer"
                          /\ _dims[i].unit[2] = "s" => ms.axes[i].unit = "second"

\* a descriptor was built for five dimensions of which one has a unit of time,
\* one a unit of length and one no unit
C24_Witness ==
    /\ fn = "_group_meta"
    /\ Len(_dims) = 5
    /\ \E i, j, k \in 1..5 :
        /\ _dims[i].unit # NoUnit /\ _dims[i].unit[2] = "s"
        /\ _dims[j].unit # NoUnit /\ _dims[j].unit[2] = "um"
        /\ _dims[k].unit = NoUnit
        /\ ret.attributes.ome.multiscales[1].axes[k].unit = "unknown"

\* the dimension of time of the list that was built, if it has one
TimeDims == {i \in 1..Len(ret) : ret[i].label = "t"}

\* C26: the scale of the unit of the time axis is the interval of the time
\* plan in seconds when the interval is not zero and the placeholder of one
\* millionth when it is zero; it is never zero.
C26_TimeScaleIsInterval ==
    (fn = "_build_dims" /\ arg.t_interval # -1) =>
        \A i \in TimeDims :
            /\ arg.t_interval # 0 => ret[i].unit = <<arg.t_interval, "s">>
            /\ arg.t_interval = 0 => ret[i].unit = <<1, "s">>
            /\ ret[i].unit[1] # 0

\* ---------------------------------------------------------------- sizes
\* position_sizes as it would be if it took a size of 1 for no size
position_sizes_drops_singletons(seq) ==
    LET main_sizes == SelectSeq(seq.sizes, LAMBDA e : e[1] # "p")
    IN IF seq.stage_positions = <<>>
       THEN << SelectSeq(main_sizes, LAMBDA e : e[2] > 1) >>
       ELSE [i \in 1..Len(seq.stage_positions) |->
                LET p == seq.stage_positions[i]
                    psizes ==
                        IF p.sequence # NoSeq
                        THEN [j \in 1..Len(p.sequence.sizes) |->
                                LET k == p.sequence.sizes[j][1]
                                    v == p.sequence.sizes[j][2]
                                IN <<k, IF v # 0 THEN v ELSE SizesGet(main_sizes, k)>>]
                        ELSE main_sizes
                IN SelectSeq(psizes, LAMBDA e : e[2] > 1 /\ e[1] # "p")]

\* position_sizes as it would be if a position with a sequence of its own took
\* no size from the root
position_sizes_no_inherit(seq) ==
    LET main_sizes == SelectSeq(seq.sizes, LAMBDA e : e[1] # "p")
    IN IF seq.stage_positions = <<>>
       THEN << SelectSeq(main_sizes, LAMBDA e : e[2] # 0) >>
       ELSE [i \in 1..Len(seq.stage_positions) |->
                LET p == seq.stage_positions[i]
                    psizes == IF p.sequence # NoSeq THEN p.sequence.sizes
                              ELSE main_sizes
                IN SelectSeq(psizes, LAMBDA e : e[2] # 0 /\ e[1] # "p")]

\* position_sizes(seq) of src/d.py; main_sizes.get(k, 0) is SizesGet
position_sizes(seq) ==
    LET main_sizes == SelectSeq(seq.sizes, LAMBDA e : e[1] # "p")
    IN IF seq.stage_positions = <<>>
       THEN << SelectSeq(main_sizes, LAMBDA e : e[2] # 0) >>
       ELSE [i \in 1..Len(seq.stage_positions) |->
                LET p == seq.stage_positions[i]
                    psizes ==
                        IF p.sequence # NoSeq
                        THEN [j \in 1..Len(p.sequence.sizes) |->
                                LET k == p.sequence.sizes[j][1]
                                    v == p.sequence.sizes[j][2]
                                IN <<k, IF v # 0 THEN v ELSE SizesGet(main_sizes, k)>>]
                        ELSE main_sizes
                IN SelectSeq(psizes, LAMBDA e : e[2] # 0 /\ e[1] # "p")]

\* jagged_sizes as it would be if the position axis were not left out of the
\* per-position maps
jagged_sizes_keeps_position(seq, compressed) ==
    LET sizes == SelectSeq(seq.sizes, LAMBDA e : e[2] # 0)
    IN IF \E i \in 1..Len(seq.stage_positions) :
              seq.stage_positions[i].sequence # NoSeq
       THEN LET sub_sizes ==
                [i \in 1..Len(seq.stage_positions) |->
                    LET p == seq.stage_positions[i]
                        items == IF p.sequence = NoSeq THEN sizes
                                 ELSE p.sequence.sizes
                        vals == [j \in 1..Len(items) |->
                                    <<items[j][1],
                                      IF items[j][2] # 0 THEN items[j][2]
                                      ELSE SizesGet(sizes, items[j][1])>>]
                    IN SelectSeq(vals, LAMBDA e : e[2] # 0)]
            IN << <<"p", sub_sizes>> >>
       ELSE sizes

\* jagged_sizes as it would be if a position with a sequence of its own took
\* no size from the root
jagged_sizes_no_inherit(seq, compressed) ==
    LET sizes == SelectSeq(seq.sizes, LAMBDA e : e[2] # 0)
    IN IF \E i \in 1..Len(seq.stage_positions) :
              seq.stage_positions[i].sequence # NoSeq
       THEN LET sub_sizes ==
                [i \in 1..Len(seq.stage_positions) |->
                    LET p == seq.stage_positions[i]
                        items == IF p.sequence = NoSeq THEN sizes
                                 ELSE p.sequence.sizes
                    IN SelectSeq(items, LAMBDA e : e[1] # "p" /\ e[2] # 0)]
            IN << <<"p", sub_sizes>> >>
       ELSE sizes

\* jagged_sizes as it would be if the position axis were left out of the map
\* returned for a description without a sequence at any position
jagged_sizes_flat_without_position(seq, compressed) ==
    LET sizes == SelectSeq(seq.sizes, LAMBDA e : e[2] # 0)
    IN IF \E i \in 1..Len(seq.stage_positions) :
              seq.stage_positions[i].sequence # NoSeq
       THEN LET sub_sizes ==
                [i \in 1..Len(seq.stage_positions) |->
                    LET p == seq.stage_positions[i]
                        items == IF p.sequence = NoSeq THEN sizes
                                 ELSE p.sequence.sizes
                        vals == [j \in 1..Len(items) |->
                                    <<items[j][1],
                                      IF items[j][2] # 0 THEN items[j][2]
                                      ELSE SizesGet(sizes, items[j][1])>>]
                    IN SelectSeq(vals, LAMBDA e : e[1] # "p" /\ e[2] # 0)]
            IN << <<"p", sub_sizes>> >>
       ELSE SelectSeq(sizes, LAMBDA e : e[1] # "p")

\* jagged_sizes(seq, compressed) of src/zz.py: a map whose position entry holds
\* the list of the per-position maps when a position has a sequence of its own;
\* sizes.get(k), None when the key is absent, is SizesGet (None and 0 are both
\* falsy)
jagged_sizes(seq, compressed) ==
    LET sizes == SelectSeq(seq.sizes, LAMBDA e : e[2] # 0)
    IN IF \E i \in 1..Len(seq.stage_positions) :
              seq.stage_positions[i].sequence # NoSeq
       THEN LET sub_sizes ==
                [i \in 1..Len(seq.stage_positions) |->
                    LET p == seq.stage_positions[i]
                        items == IF p.sequence = NoSeq THEN sizes
                                 ELSE p.sequence.sizes
                        vals == [j \in 1..Len(items) |->
                                    <<items[j][1],
                                      IF items[j][2] # 0 THEN items[j][2]
                                      ELSE SizesGet(sizes, items[j][1])>>]
                    IN SelectSeq(vals, LAMBDA e : e[1] # "p" /\ e[2] # 0)]
            IN << <<"p", sub_sizes>> >>
       ELSE sizes

\* a sequence of a position: a size map of its own and no positions
PositionSequence(sizes) ==
    [sizes |-> sizes, stage_positions |-> <<>>, z_step |-> -1, t_interval |-> -1]

\* the axis orders of the descriptions and of the sequences of their positions
RootOrders == { <<"t", "p", "c">>, <<"p", "c">> }
SubOrders == { <<"t", "p", "c">>, <<"c">> }

\* the sizes of their axes: unused, singleton, and the largest
SizeValues == {0, 1, MaxAxisSize}

\* the size maps over an axis order, the position axis with size n
SizeMaps(order, n) ==
    { [i \in 1..Len(order) |-> <<order[i], v[i]>>] :
        v \in { w \in [1..Len(order) -> SizeValues \cup {n}] :
                  \A i \in 1..Len(order) :
                      IF order[i] = "p" THEN w[i] = n ELSE w[i] \in SizeValues } }

\* seq.sizes of a description with n positions: the position axis has size n
RootSizes(n) == UNION {SizeMaps(o, n) : o \in RootOrders}

\* a stage position: without a sequence, or with a sequence without positions
PositionInputs ==
    { [sequence |-> NoSeq] } \cup
    { [sequence |-> PositionSequence(sz)] :
        sz \in UNION {SizeMaps(o, 0) : o \in SubOrders} }

\* the example of the docstring of jagged_sizes: channels DAPI and FITC, three
\* time points, four z positions, two stage positions, the second with a
\* sequence of one channel and a grid of two
DocSeq ==
    [sizes |-> << <<"t", 3>>, <<"p", 2>>, <<"g", 0>>, <<"c", 2>>, <<"z", 4>> >>,
     stage_positions |->
        << [sequence |-> NoSeq],
           [sequence |-> PositionSequence(<< <<"t", 0>>, <<"p", 0>>, <<"g", 2>>,
                                   <<"c", 1>>, <<"z", 0>> >>)] >>,
     z_step |-> 700000, t_interval |-> 0]

\* the same without channels in the root
DocSeqNoChannels ==
    [DocSeq EXCEPT !.sizes =
        << <<"t", 3>>, <<"p", 2>>, <<"g", 0>>, <<"c", 0>>, <<"z", 4>> >>]

\* the descriptions the size functions are applied to
SizeInputs ==
    {DocSeq, DocSeqNoChannels} \cup
    UNION { { [sizes |-> sz, stage_positions |-> ps, z_step |-> -1, t_interval |-> -1] :
                sz \in RootSizes(n), ps \in [1..n -> PositionInputs] } :
            n \in 0..MaxPositions }

\* a description and the compressed argument are drawn
InitSizes ==
    /\ InitWriter
    /\ _group_path = None
    /\ chunks = NoChunks
    /\ fn = "none"
    /\ arg \in [seq : SizeInputs, compressed : BOOLEAN]
    /\ ret = <<>>

\* position_sizes is applied to the description
call_position_sizes ==
    /\ fn = "none"
    /\ fn' = "position_sizes"
    /\ ret' = position_sizes(arg.seq)
    /\ UNCHANGED <<arg, writerVars, _group_path, chunks, engineVars, pc, fi, lastOp,
                   raised, nSince>>

\* jagged_sizes is applied to the description
call_jagged_sizes ==
    /\ fn = "none"
    /\ fn' = "jagged_sizes"
    /\ ret' = jagged_sizes(arg.seq, arg.compressed)
    /\ UNCHANGED <<arg, writerVars, _group_path, chunks, engineVars, pc, fi, lastOp,
                   raised, nSince>>

\* _build_dims is applied to the description
call_build_dims_of_sizes ==
    /\ fn = "none"
    /\ fn' = "_build_dims"
    /\ ret' = _build_dims(arg.seq, ImageInfo)
    /\ UNCHANGED <<arg, writerVars, _group_path, chunks, engineVars, pc, fi, lastOp,
                   raised, nSince>>

\* the keys of a size map
Keys(m) == {m[j][1] : j \in 1..Len(m)}

\* a position of the description has a sequence of its own
HasSub(seq) ==
    \E i \in 1..Len(seq.stage_positions) : seq.stage_positions[i].sequence # NoSeq

\* the size map position i is resolved from: the one of its own sequence, the
\* one of the root when it has none
OwnSizes(seq, i) ==
    IF seq.stage_positions[i].sequence # NoSeq
    THEN seq.stage_positions[i].sequence.sizes
    ELSE seq.sizes

\* the per-position maps of the result
PositionMaps == IF fn = "position_sizes" THEN ret ELSE ret[1][2]

\* out, resolved from the map src of a description with the root map root, has
\* no entry of size 0, no key for an axis without a size in src and in root,
\* and an entry for every axis but the position axis whose size in src is 1
ZeroOmittedSingletonKept(out, src, root) ==
    /\ \A q \in 1..Len(out) : out[q][2] # 0
    /\ \A j \in 1..Len(src) :
        /\ (src[j][2] = 0 /\ SizesGet(root, src[j][1]) = 0) => src[j][1] \notin Keys(out)
        /\ (src[j][2] = 1 /\ src[j][1] # "p") =>
                \E q \in 1..Len(out) : out[q] = <<src[j][1], 1>>

\* the dimensions of a list as a size map, y and x left out
DimSizes(dims) == [i \in 1..Len(dims) - 2 |-> <<dims[i].label, dims[i].size>>]

\* C16: in what position_sizes and jagged_sizes return and in the dimension
\* list built from the sizes, an axis whose size is 0 never appears, and an
\* axis other than the position axis whose size is 1 always appears.
C16_ZeroNeverSingletonAlways ==
    /\ (fn \in {"position_sizes", "jagged_sizes"} /\ HasSub(arg.seq)) =>
            \A i \in 1..Len(PositionMaps) :
                ZeroOmittedSingletonKept(PositionMaps[i], OwnSizes(arg.seq, i),
                                         arg.seq.sizes)
    /\ (fn = "position_sizes" /\ ~HasSub(arg.seq)) =>
            \A i \in 1..Len(ret) :
                ZeroOmittedSingletonKept(ret[i], arg.seq.sizes, arg.seq.sizes)
    /\ (fn = "jagged_sizes" /\ ~HasSub(arg.seq)) =>
            ZeroOmittedSingletonKept(ret, arg.seq.sizes, arg.seq.sizes)
    /\ fn = "_build_dims" =>
            ZeroOmittedSingletonKept(DimSizes(ret), arg.seq.sizes, arg.seq.sizes)

\* position_sizes was applied to a description whose second position has a
\* sequence with a channel axis of size 1 and a time axis of size 0, the root
\* having no time axis either
C16_Witness ==
    /\ fn = "position_sizes"
    /\ Len(arg.seq.stage_positions) = 2
    /\ arg.seq.stage_positions[1].sequence = NoSeq
    /\ arg.seq.stage_positions[2].sequence # NoSeq
    /\ OwnSizes(arg.seq, 2) = << <<"t", 0>>, <<"p", 0>>, <<"c", 1>> >>
    /\ SizesGet(arg.seq.sizes, "t") = 0
    /\ ret[2] = << <<"c", 1>> >>

\* the size of axis k for position i: its own size if it is not zero, the size
\* of the root otherwise
PositionSize(seq, i, k) ==
    IF SizesGet(OwnSizes(seq, i), k) # 0
    THEN SizesGet(OwnSizes(seq, i), k)
    ELSE SizesGet(seq.sizes, k)

\* C17: when a position has a sequence of its own, there is one map per
\* position; its keys are the axes listed by the sequence of the position (by
\* the root when it has none) whose size, the position's own if not zero and
\* the root's otherwise, is not zero; each key has that size; the position
\* axis is a key of no map.
C17_PerPositionMap ==
    (fn \in {"position_sizes", "jagged_sizes"} /\ HasSub(arg.seq)) =>
        /\ Len(PositionMaps) = Len(arg.seq.stage_positions)
        /\ \A i \in 1..Len(PositionMaps) :
            LET m == PositionMaps[i] IN
            /\ "p" \notin Keys(m)
            /\ Keys(m) = {k \in Keys(OwnSizes(arg.seq, i)) \ {"p"} :
                              PositionSize(arg.seq, i, k) # 0}
            /\ \A q \in 1..Len(m) : m[q][2] = PositionSize(arg.seq, i, m[q][1])
            /\ \A q, r \in 1..Len(m) : q # r => m[q][1] # m[r][1]

\* jagged_sizes was applied to a description whose first position has a
\* sequence that lists t without a size and c with a size other than the
\* root's: its map has the root's t and its own c
C17_Witness ==
    /\ fn = "jagged_sizes"
    /\ arg.seq.sizes = << <<"t", 2>>, <<"p", 2>>, <<"c", 1>> >>
    /\ arg.seq.stage_positions[1].sequence # NoSeq
    /\ OwnSizes(arg.seq, 1) = << <<"t", 0>>, <<"p", 0>>, <<"c", 2>> >>
    /\ arg.seq.stage_positions[2].sequence = NoSeq
    /\ PositionMaps = << << <<"t", 2>>, <<"c", 2>> >>, << <<"t", 2>>, <<"c", 1>> >> >>

\* the size map of the sequence of position i, empty when it has none
SubSizes(seq, i) ==
    IF seq.stage_positions[i].sequence # NoSeq
    THEN seq.stage_positions[i].sequence.sizes
    ELSE <<>>

\* the entries of a size map
Entries(m) == {m[q] : q \in 1..Len(m)}

RootKeys == {ret[j][1] : j \in 1..Len(ret)} \ {"p"}

\* the per-position entries of what jagged_sizes returned for a description
\* with a position that has a sequence of its own
PositionEntries == ret[CHOOSE j \in 1..Len(ret) : ret[j][1] = "p"][2]

\* axis k has the same size in the root and in the map of every position
SameEverywhere(seq, k) ==
    /\ SizesGet(seq.sizes, k) # 0
    /\ \A i \in 1..Len(seq.stage_positions) :
        /\ k \in Keys(OwnSizes(seq, i))
        /\ PositionSize(seq, i, k) = SizesGet(seq.sizes, k)

\* C19: with compressed requested, jagged_sizes puts an axis into the root map
\* and takes it out of every per-position entry exactly when its size is the
\* same in the root and in every per-position map, an axis on which a position
\* differs stays in the per-position entries, and the example of the docstring
\* gives {t: 3, z: 4, p: [{c: 2}, {g: 2, c: 1}]}.
C19_CompressedHoistsCommonAxes ==
    (fn = "jagged_sizes" /\ arg.compressed /\ HasSub(arg.seq)) =>
        /\ \A k \in {"t", "g", "c", "z"} :
            /\ k \in RootKeys <=> SameEverywhere(arg.seq, k)
            /\ \A i \in 1..Len(PositionEntries) :
                k \in Keys(PositionEntries[i]) <=>
                    /\ ~SameEverywhere(arg.seq, k)
                    /\ k \in Keys(OwnSizes(arg.seq, i))
                    /\ PositionSize(arg.seq, i, k) # 0
        /\ arg.seq = DocSeq =>
            /\ Len(ret) = 3
            /\ ret[1] = <<"t", 3>>
            /\ ret[2] = <<"z", 4>>
            /\ ret[3][1] = "p"
            /\ ret[3][2] = << << <<"c", 2>> >>, << <<"g", 2>>, <<"c", 1>> >> >>

\* C20, as stated: for the root sizes {t: 3, z: 4} and two positions, the
\* first without a sequence and the second with a sequence that defines only
\* g: 2 and c: 1, jagged_sizes returns the root map {t: 3, z: 4} and the
\* per-position list [{}, {g: 2, c: 1, z: 4}].
C20_RootMapAndOverrides ==
    (fn = "jagged_sizes" /\ arg.seq = DocSeqNoChannels) =>
        /\ Len(ret) = 3
        /\ ret[1] = <<"t", 3>>
        /\ ret[2] = <<"z", 4>>
        /\ ret[3][1] = "p"
        /\ ret[3][2] = << <<>>, << <<"g", 2>>, <<"c", 1>>, <<"z", 4>> >> >>

\* C20, amended: for these sizes and positions (the sequence of the second
\* position lists t and z with size 0) and compressed not requested,
\* jagged_sizes returns a map with the position axis as its only key, and its
\* per-position list is [{t: 3, z: 4}, {t: 3, g: 2, c: 1, z: 4}].
C20_PositionEntryWithFullMaps ==
    (fn = "jagged_sizes" /\ arg.seq = DocSeqNoChannels /\ ~arg.compressed) =>
        /\ Len(ret) = 1
        /\ ret[1][1] = "p"
        /\ ret[1][2] = << << <<"t", 3>>, <<"z", 4>> >>,
                          << <<"t", 3>>, <<"g", 2>>, <<"c", 1>>, <<"z", 4>> >> >>

\* jagged_sizes was applied to these sizes and positions, compressed not
\* requested
C20_Witness ==
    /\ fn = "jagged_sizes"
    /\ arg.seq = DocSeqNoChannels
    /\ ~arg.compressed
    /\ Len(ret[1][2]) = 2

\* m holds exactly the entries of root that satisfy Keep, each once and in the
\* order of root
SubMapOf(m, root, Keep(_)) ==
    /\ Entries(m) = {e \in Entries(root) : Keep(e)}
    /\ \A q, r \in 1..Len(m) : q < r =>
            \E a, b \in 1..Len(root) : a < b /\ root[a] = m[q] /\ root[b] = m[r]

\* C21, as stated: when no position has a sequence of its own, size resolution
\* (position_sizes, jagged_sizes) returns the root sizes with the position axis
\* removed and the entries of size 0 dropped, one such map per position when
\* there are positions.
C21_FlatWithoutPositionAxis ==
    ~HasSub(arg.seq) =>
        /\ fn = "position_sizes" =>
            /\ Len(ret) = IF arg.seq.stage_positions = <<>> THEN 1
                          ELSE Len(arg.seq.stage_positions)
            /\ \A i \in 1..Len(ret) :
                SubMapOf(ret[i], arg.seq.sizes, LAMBDA e : e[1] # "p" /\ e[2] # 0)
        /\ fn = "jagged_sizes" =>
            SubMapOf(ret, arg.seq.sizes, LAMBDA e : e[1] # "p" /\ e[2] # 0)

\* C21, amended: when no position has a sequence of its own, position_sizes
\* returns the root sizes with the position axis removed and the entries of
\* size 0 dropped, one such map per position when there are positions, and
\* jagged_sizes returns one map, the root sizes with the entries of size 0
\* dropped and the position axis kept.
C21_FlatPerFunction ==
    ~HasSub(arg.seq) =>
        /\ fn = "position_sizes" =>
            /\ Len(ret) = IF arg.seq.stage_positions = <<>> THEN 1
                          ELSE Len(arg.seq.stage_positions)
            /\ \A i \in 1..Len(ret) :
                SubMapOf(ret[i], arg.seq.sizes, LAMBDA e : e[1] # "p" /\ e[2] # 0)
        /\ fn = "jagged_sizes" =>
            SubMapOf(ret, arg.seq.sizes, LAMBDA e : e[2] # 0)

\* jagged_sizes was applied to a description with two positions without
\* sequences, a time axis without a size and one channel: the map returned
\* holds the position axis
C21_Witness ==
    /\ fn = "jagged_sizes"
    /\ arg.seq.sizes = << <<"t", 0>>, <<"p", 2>>, <<"c", 1>> >>
    /\ ~HasSub(arg.seq)
    /\ ret = << <<"p", 2>>, <<"c", 1>> >>

\* ---------------------------------------------------------------- locations
\* A destination is a string, modelled as a sequence of pieces: the word
\* memory in two spellings, a name, and the characters : and /. The names
\* are plain ones: no ~, no . or .. and no link, so that expanduser and resolve
\* change nothing that absolute does not.
Tokens == {"memory", "MEMORY", ":", "/", "a"}
Strings(n) == UNION {[1..k -> Tokens] : k \in 0..n}

\* the argument path: not given (None) or a string
DestInputs ==
    {[given |-> FALSE, path |-> <<>>]}
        \cup {[given |-> TRUE, path |-> str] : str \in Strings(MaxPathLen)}

\* str.lower()
lower(str) == [i \in 1..Len(str) |-> IF str[i] = "MEMORY" THEN "memory" ELSE str[i]]

\* str.startswith(prefix)
startswith(str, prefix) ==
    Len(str) >= Len(prefix) /\ SubSeq(str, 1, Len(prefix)) = prefix

\* sub in str
contains(str, sub) ==
    \E i \in 1..(Len(str) - Len(sub) + 1) : SubSeq(str, i, i + Len(sub) - 1) = sub

\* "://" and "memory://"
SchemeSeparator == <<":", "/", "/">>
MemoryUrl == <<"memory">> \o SchemeSeparator

\* the working directory, as the segments of its path
Cwd == << <<"cwd">> >>

RECURSIVE PartsFrom(_, _)
\* the segments of a path string: the runs of pieces between slashes, empty
\* runs dropped (Path collapses repeated and trailing slashes)
PartsFrom(str, cur) ==
    IF str = <<>> THEN (IF cur = <<>> THEN <<>> ELSE <<cur>>)
    ELSE IF Head(str) = "/"
        THEN (IF cur = <<>> THEN <<>> ELSE <<cur>>) \o PartsFrom(Tail(str), <<>>)
        ELSE PartsFrom(Tail(str), Append(cur, Head(str)))

\* Path(path).expanduser().absolute().resolve(), as the segments below the
\* root: a string that starts with a slash is absolute, any other one is taken
\* below the working directory
PathResolve(str) ==
    IF str # <<>> /\ Head(str) = "/" THEN PartsFrom(str, <<>>)
    ELSE Cwd \o PartsFrom(str, <<>>)

RECURSIVE PathStrFrom(_)
PathStrFrom(parts) ==
    IF parts = <<>> THEN <<>>
    ELSE <<"/">> \o Head(parts) \o PathStrFrom(Tail(parts))

\* str(path) of an absolute path
PathStr(parts) == IF parts = <<>> THEN <<"/">> ELSE PathStrFrom(parts)

\* the setter as it would be if a string with a scheme separator were taken
\* as the location as it is
group_path_verbatim_urls(path) ==
    IF ~path.given \/ startswith(lower(path.path), <<"memory", ":">>)
    THEN [kvstore |-> MemoryUrl, has_group |-> FALSE, group |-> <<>>]
    ELSE IF contains(path.path, SchemeSeparator)
    THEN [kvstore |-> path.path, has_group |-> FALSE, group |-> <<>>]
    ELSE LET resolved == PathResolve(path.path)
         IN [kvstore |-> <<"file">> \o SchemeSeparator
                            \o PathStr(Append(resolved, <<_array_path>>)),
             has_group |-> TRUE, group |-> resolved]

\* the setter of group_path: self.kvstore and self._group_path (has_group is
\* FALSE for None)
group_path(path) ==
    IF ~path.given \/ startswith(lower(path.path), <<"memory", ":">>)
    THEN [kvstore |-> MemoryUrl, has_group |-> FALSE, group |-> <<>>]
    ELSE LET resolved == PathResolve(path.path)
         IN [kvstore |-> <<"file">> \o SchemeSeparator
                            \o PathStr(Append(resolved, <<_array_path>>)),
             has_group |-> TRUE, group |-> resolved]

\* _path_kvstore(path): the string itself or a file location
_path_kvstore(path) ==
    IF contains(path, SchemeSeparator) THEN [kind |-> "url", value |-> path]
    ELSE [kind |-> "file", value |-> PathStr(PathResolve(path))]

\* a destination is drawn
InitLocation ==
    /\ InitWriter
    /\ _group_path = None
    /\ chunks = NoChunks
    /\ fn = "none"
    /\ arg \in DestInputs
    /\ ret = <<>>

\* handler.group_path = path
call_group_path ==
    /\ fn = "none"
    /\ fn' = "group_path"
    /\ ret' = group_path(arg)
    /\ _group_path' = IF group_path(arg).has_group THEN 1 ELSE None
    /\ UNCHANGED <<arg, writerVars, chunks, engineVars, pc, fi, lastOp, raised,
                   nSince>>

\* _path_kvstore(path), which is called with a path only
call_path_kvstore ==
    /\ fn = "none"
    /\ arg.given
    /\ fn' = "_path_kvstore"
    /\ ret' = _path_kvstore(arg.path)
    /\ UNCHANGED <<arg, writerVars, _group_path, chunks, engineVars, pc, fi,
                   lastOp, raised, nSince>>

\* C25 as stated: a destination with a scheme separator is the location as
\* it is; any other destination is a local path, made absolute, with the array
\* one segment below the group location; without a destination the location
\* is the one in memory and there is no group location.
C25_LocationResolution ==
    fn = "group_path" =>
        /\ (arg.given /\ contains(arg.path, SchemeSeparator)) =>
                ret.kvstore = arg.path
        /\ (arg.given /\ ~contains(arg.path, SchemeSeparator)) =>
                /\ ret.has_group
                /\ ret.group = PathResolve(arg.path)
                /\ ret.kvstore = <<"file">> \o SchemeSeparator \o PathStr(ret.group)
                                    \o (IF ret.group = <<>> THEN <<>> ELSE <<"/">>)
                                    \o <<_array_path>>
        /\ ~arg.given => (ret.kvstore = MemoryUrl /\ ~ret.has_group)

\* C25, amended: the handler takes the location in memory, without a group
\* location, when no destination is given or when the destination starts with
\* memory: in any case of letters; any other destination, one with a scheme
\* separator included, is a local path, made absolute, that is the group
\* location, and the array is one segment below it. _path_kvstore returns a
\* string with a scheme separator as it is and for any other one the file
\* location of the absolute path itself.
C25_LocationPerFunction ==
    /\ fn = "group_path" =>
        IF ~arg.given \/ (Len(arg.path) >= 2 /\ arg.path[1] \in {"memory", "MEMORY"}
                                             /\ arg.path[2] = ":")
        THEN ret.kvstore = MemoryUrl /\ ~ret.has_group
        ELSE /\ ret.has_group
             /\ ret.group = PathResolve(arg.path)
             /\ ret.kvstore = <<"file">> \o SchemeSeparator \o PathStr(ret.group)
                                 \o (IF ret.group = <<>> THEN <<>> ELSE <<"/">>)
                                 \o <<_array_path>>
    /\ fn = "_path_kvstore" =>
        IF contains(arg.path, SchemeSeparator)
        THEN ret = [kind |-> "url", value |-> arg.path]
        ELSE ret = [kind |-> "file", value |-> PathStr(PathResolve(arg.path))]

\* the handler was given a destination with a scheme separator that does not
\* start with memory: and took it for a local path
C25_Witness ==
    /\ fn = "group_path"
    /\ arg.given
    /\ contains(arg.path, SchemeSeparator)
    /\ ret.has_group
    /\ ret.group = Cwd \o << <<"a", ":">> >>

\* ---------------------------------------------------------------- create_zarr3
\* shape and dimension_names of up to MaxRank entries
Shapes == UNION {[1..k -> 1..MaxAxisSize] : k \in 0..MaxRank}
NameLists == UNION {[1..k -> {"y", "x"}] : k \in 0..MaxRank}

\* a dict without keys, and d[k] = v
EmptyDict == [k \in {} |-> 0]
Put(d, k, v) == [x \in DOMAIN d \cup {k} |-> IF x = k THEN v ELSE d[x]]

\* the keyword metadata: absent, with codecs, with dimension_names
MetadataInputs ==
    { EmptyDict,
      Put(EmptyDict, "codecs", <<"blosc">>),
      Put(EmptyDict, "dimension_names", <<"q">>) }

\* the arguments of create_zarr3: shape, dimension_names (None or a list),
\* codecs (None or one codec), and the keywords path, dtype and metadata
CreateInputs ==
    [ shape : Shapes,
      dimension_names : {[given |-> FALSE, names |-> <<>>]}
                            \cup {[given |-> TRUE, names |-> n] : n \in NameLists},
      codecs : {"None", "gzip"},
      path : {[given |-> FALSE, path |-> <<>>],
              [given |-> TRUE, path |-> <<"a">>],
              [given |-> TRUE, path |-> <<"a">> \o SchemeSeparator]},
      dtype : {"absent", "uint16", "invalid"},
      metadata : MetadataInputs ]

\* _norm_dtype(dtype) raises for a name that is no data type
norm_dtype_raises(dtype) == dtype = "invalid"

\* the spec create_zarr3 hands to ts.open when nothing is raised
Zarr3Spec(a) ==
    LET kv == IF a.path.given THEN _path_kvstore(a.path.path)
              ELSE [kind |-> "url", value |-> MemoryUrl]
        dtype == IF a.dtype = "absent" THEN "float32" ELSE a.dtype
        withShape == IF "shape" \in DOMAIN a.metadata THEN a.metadata
                     ELSE Put(a.metadata, "shape", a.shape)
        withCodecs == IF a.codecs # "None" THEN Put(withShape, "codecs", <<a.codecs>>)
                      ELSE withShape
        metadata == IF a.dimension_names.given
                    THEN Put(withCodecs, "dimension_names", a.dimension_names.names)
                    ELSE withCodecs
    IN [driver |-> "zarr3", kvstore |-> kv, create |-> TRUE,
        dtype |-> dtype, metadata |-> metadata]

\* the raises of create_zarr3, in the order of the code
CreateRaises(a) ==
    \/ a.dtype # "absent" /\ norm_dtype_raises(a.dtype)
    \/ a.codecs # "None" /\ "codecs" \in DOMAIN a.metadata
    \/ a.dimension_names.given /\ Len(a.dimension_names.names) # Len(a.shape)

\* create_zarr3 as it would be if the array were opened before the lengths
\* are compared
create_zarr3_opens_first(a) ==
    IF CreateRaises(a)
    THEN [raised |-> "ValueError",
          opens |-> IF a.dtype = "invalid" \/ (a.codecs # "None" /\ "codecs" \in DOMAIN a.metadata)
                    THEN <<>> ELSE <<Zarr3Spec(a)>>]
    ELSE [raised |-> "none", opens |-> <<Zarr3Spec(a)>>]

\* create_zarr3(shape, dimension_names, codecs, **kwargs): what is raised and
\* the calls of ts.open it has made
create_zarr3(a) ==
    IF CreateRaises(a) THEN [raised |-> "ValueError", opens |-> <<>>]
    ELSE [raised |-> "none", opens |-> <<Zarr3Spec(a)>>]

\* the arguments are drawn
InitCreate ==
    /\ InitWriter
    /\ _group_path = None
    /\ chunks = NoChunks
    /\ fn = "none"
    /\ arg \in CreateInputs
    /\ ret = <<>>

call_create_zarr3 ==
    /\ fn = "none"
    /\ fn' = "create_zarr3"
    /\ ret' = create_zarr3(arg)
    /\ UNCHANGED <<arg, writerVars, _group_path, chunks, engineVars, pc, fi,
                   lastOp, raised, nSince>>

\* dimension_names is given and has the length of shape, or not
NamesGivenAndFit ==
    arg.dimension_names.given /\ Len(arg.dimension_names.names) = Len(arg.shape)
NamesGivenAndMisfit ==
    arg.dimension_names.given /\ Len(arg.dimension_names.names) # Len(arg.shape)

\* C27 as stated: with dimension_names of another length than shape an error
\* is raised and no open call was made; with the same length one open call
\* is made, whose metadata holds the names.
C27_NamesCheckedBeforeOpen ==
    fn = "create_zarr3" =>
        /\ NamesGivenAndMisfit => (ret.raised # "none" /\ ret.opens = <<>>)
        /\ NamesGivenAndFit =>
                /\ Len(ret.opens) = 1
                /\ ret.opens[1].metadata["dimension_names"] = arg.dimension_names.names

\* the other arguments are accepted: the dtype is a data type, and codecs is
\* not given together with a metadata that has codecs
OtherArgumentsAccepted ==
    /\ arg.dtype # "invalid"
    /\ ~(arg.codecs # "None" /\ "codecs" \in DOMAIN arg.metadata)

\* C27, amended: with dimension_names of another length than shape an error
\* is raised and no open call was made; with the same length, and the other
\* arguments accepted, one open call is made, whose metadata holds the names;
\* when another argument is rejected an error is raised and no open call was
\* made.
C27_NamesCheckedBeforeOpenWhenAccepted ==
    fn = "create_zarr3" =>
        /\ NamesGivenAndMisfit => (ret.raised # "none" /\ ret.opens = <<>>)
        /\ (NamesGivenAndFit /\ OtherArgumentsAccepted) =>
                /\ ret.raised = "none"
                /\ Len(ret.opens) = 1
                /\ ret.opens[1].metadata["dimension_names"] = arg.dimension_names.names
        /\ ~OtherArgumentsAccepted => (ret.raised # "none" /\ ret.opens = <<>>)

\* create_zarr3 has raised for two names with a shape of one entry, the other
\* arguments being accepted
C27_Witness ==
    /\ fn = "create_zarr3"
    /\ OtherArgumentsAccepted
    /\ Len(arg.dimension_names.names) = 2
    /\ Len(arg.shape) = 1
    /\ ret.raised = "ValueError"
    /\ ret.opens = <<>>

\* ---------------------------------------------------------------- append loop
\* main of src/x.py: the array is resized along time and written to, round by
\* round, and the writes are waited for after the loop. The variables hold
\* the state of main: arrays is <<store>> with the length of its time axis and
\* the length a resize under way will give it (0: none under way), writes the
\* writes the engine was handed, _futures the list write_futures, fi the loop
\* variable i, then the position in the wait loop, pc the position in main.
\* total_rounds is 20 in the source, MaxRounds here.
InitAppend ==
    /\ _store = None
    /\ _futures = <<>>
    /\ _frame_metadatas = <<>>
    /\ _current_sequence = NoSeq
    /\ _dims = <<>>
    /\ _group_path = None
    /\ chunks = NoChunks
    /\ group_zarr = <<>>
    /\ arrays = << [length |-> 0, pending |-> 0] >>
    /\ writes = <<>>
    /\ pc = "for"
    /\ fi = 0
    /\ lastOp = "init"
    /\ raised = "none"
    /\ nSince = 0
    /\ fn = "main"
    /\ arg = <<>>
    /\ ret = <<>>

appendFixed ==
    <<_store, _frame_metadatas, _current_sequence, _dims, _group_path, chunks,
      group_zarr, lastOp, nSince, callVars>>

\* store.resize(exclusive_max=new_shape): the resize to length i + 1 is
\* handed to the engine
resize ==
    /\ pc = "for"
    /\ fi < MaxRounds
    /\ arrays' = [arrays EXCEPT ![1].pending = fi + 1]
    /\ pc' = "resize_result"
    /\ UNCHANGED <<appendFixed, _futures, writes, fi, raised>>

\* the engine carries out the resize
ResizeCompletes ==
    /\ arrays[1].pending # 0
    /\ arrays' = [arrays EXCEPT ![1].length = arrays[1].pending, ![1].pending = 0]
    /\ UNCHANGED <<appendFixed, _futures, writes, pc, fi, raised>>

\* .result() as it would be if it returned without waiting for the resize
resize_result_no_wait ==
    /\ pc = "resize_result"
    /\ pc' = "write"
    /\ UNCHANGED <<appendFixed, arrays, _futures, writes, fi, raised>>

\* .result() of the resize returns once the resize is done
resize_result ==
    /\ pc = "resize_result"
    /\ arrays[1].pending = 0
    /\ pc' = "write"
    /\ UNCHANGED <<appendFixed, arrays, _futures, writes, fi, raised>>

\* write_futures.append(store[new_time_length - 1, ...].write(data)): the
\* write is handed to the engine and its future is kept, not waited for
append_write ==
    /\ pc = "write"
    /\ writes' = Append(writes, [st |-> "inflight", idx |-> fi, awaited |-> FALSE])
    /\ _futures' = Append(_futures, Len(writes) + 1)
    /\ fi' = fi + 1
    /\ pc' = "for"
    /\ UNCHANGED <<appendFixed, arrays, raised>>

\* the engine completes a write, or the write fails
AppendWriteCompletes ==
    \E h \in 1..Len(writes) :
        /\ writes[h].st = "inflight"
        /\ writes' = [writes EXCEPT ![h].st = "ok"]
        /\ UNCHANGED <<appendFixed, arrays, _futures, pc, fi, raised>>

AppendWriteFails ==
    \E h \in 1..Len(writes) :
        /\ writes[h].st = "inflight"
        /\ writes' = [writes EXCEPT ![h].st = "failed"]
        /\ UNCHANGED <<appendFixed, arrays, _futures, pc, fi, raised>>

\* the loop over the rounds is over, the wait loop begins
wait_begin ==
    /\ pc = "for"
    /\ fi = MaxRounds
    /\ pc' = "wait"
    /\ fi' = 1
    /\ UNCHANGED <<appendFixed, arrays, _futures, writes, raised>>

\* write_future.result(): returns once the write is done, raises its error,
\* which ends main
wait_result ==
    /\ pc = "wait"
    /\ fi <= Len(_futures)
    /\ writes[_futures[fi]].st # "inflight"
    /\ writes' = [writes EXCEPT ![_futures[fi]].awaited = TRUE]
    /\ IF writes[_futures[fi]].st = "ok"
       THEN /\ fi' = fi + 1
            /\ UNCHANGED <<pc, raised>>
       ELSE /\ raised' = "WriteFailure"
            /\ pc' = "done"
            /\ UNCHANGED fi
    /\ UNCHANGED <<appendFixed, arrays, _futures>>

\* the wait loop is over, main returns
wait_end ==
    /\ pc = "wait"
    /\ fi > Len(_futures)
    /\ pc' = "done"
    /\ UNCHANGED <<appendFixed, arrays, _futures, writes, fi, raised>>

\* every write handed to the engine is for an index below the length of the
\* array, and the write of round i was handed over with the length i + 1
DispatchedInBounds ==
    \A h \in 1..Len(writes) :
        /\ writes[h].idx < arrays[1].length
        /\ writes[h].idx = h - 1

\* no write was waited for while main is in the loop over the rounds
NotAwaitedInLoop ==
    pc \in {"for", "resize_result", "write"} =>
        \A h \in 1..Len(writes) : ~writes[h].awaited

\* C28: the write of round i is handed over only when the resize to length
\* i + 1 is done, so each write is for an index within the array; no write
\* is waited for inside the loop; when main has ended every write handed
\* over was waited for.
C28_ResizeThenWriteAllAwaited ==
    /\ DispatchedInBounds
    /\ NotAwaitedInLoop
    /\ pc = "done" => \A h \in 1..Len(writes) : writes[h].awaited

\* ---------------------------------------------------------------- Context
\* core/_context.py: a Context and the child made from it with new_child.
\* Context 1 is the parent, Context(), context 2 the child; the maps of the
\* child are its own map and the map of the parent. The variables hold the
\* state of the two: arrays is <<map of 1, map of 2>>, fi the number of
\* children, pc <<changed of 1 is paused, changed of 2 is paused>>, _futures
\* the queues of the two paused signals, ret the emissions a listener of each
\* changed has received during the last operation, lastOp that operation.
ContextKeys == {"a", "b"}

\* two objects that are equal and not identical, and the sentinel _NULL,
\* which also stands for a key a map does not have
Objs == {"o1", "o2"}
NULL == "_NULL"

\* the maps of a context, first its own
Maps(c) == IF c = 1 THEN <<1>> ELSE <<2, 1>>

\* self.get(k, _NULL): the value of the first map that has k
get(c, k) ==
    LET has == {i \in 1..Len(Maps(c)) : arrays[Maps(c)[i]][k] # NULL}
    IN IF has = {} THEN NULL
       ELSE arrays[Maps(c)[CHOOSE i \in has : \A j \in has : i <= j]][k]

\* x is not y as it would be if the values were compared
is_not_by_value(x, y) == (x = NULL) # (y = NULL)

\* x is not y: the two are not the same object
is_not(x, y) == x # y

NoEmission == << <<>>, <<>> >>

\* changed.emit as it would be if the signal of the child were not connected
changed_emit_not_connected(c, keys, paused, sig) ==
    IF paused[c] THEN [sig EXCEPT !.queue[c] = Append(@, keys)]
    ELSE [sig EXCEPT !.emitted[c] = Append(@, keys)]

\* self.changed.emit(keys) of context c: a paused signal queues the
\* arguments, any other one calls its listeners, and the changed of the
\* parent is connected to the changed of the child
changed_emit(c, keys, paused, sig) ==
    LET child(s) == IF paused[2] THEN [s EXCEPT !.queue[2] = Append(@, keys)]
                    ELSE [s EXCEPT !.emitted[2] = Append(@, keys)]
    IN IF c = 2 THEN child(sig)
       ELSE IF paused[1] THEN [sig EXCEPT !.queue[1] = Append(@, keys)]
       ELSE LET s1 == [sig EXCEPT !.emitted[1] = Append(@, keys)]
            IN IF fi = 1 THEN child(s1) ELSE s1

\* the reduction of the queue by (a, b) -> a.union(b)
Union(queue) == UNION {queue[i] : i \in 1..Len(queue)}

InitContext ==
    /\ _store = None
    /\ _futures = NoEmission
    /\ _frame_metadatas = <<>>
    /\ _current_sequence = NoSeq
    /\ _dims = <<>>
    /\ _group_path = None
    /\ chunks = NoChunks
    /\ group_zarr = <<>>
    /\ arrays = << [k \in ContextKeys |-> NULL], [k \in ContextKeys |-> NULL] >>
    /\ writes = <<>>
    /\ pc = <<FALSE, FALSE>>
    /\ fi = 0
    /\ lastOp = [op |-> "Context", c |-> 1, k |-> ""]
    /\ raised = "none"
    /\ nSince = 0
    /\ fn = "Context"
    /\ arg = <<>>
    /\ ret = NoEmission

contextFixed ==
    <<_store, _frame_metadatas, _current_sequence, _dims, _group_path, chunks,
      group_zarr, writes, nSince, fn, arg>>

\* the contexts there are
Contexts == IF fi = 1 THEN {1, 2} ELSE {1}

\* no queue is full
CanQueue == \A c \in {1, 2} : Len(_futures[c]) < MaxQueue

\* context[k] = v
__setitem__ ==
    \E c \in Contexts, k \in ContextKeys, v \in Objs :
        /\ CanQueue
        /\ LET emit == is_not(get(c, k), v)
               sig == [queue |-> _futures, emitted |-> NoEmission]
               after == IF emit THEN changed_emit(c, {k}, pc, sig) ELSE sig
           IN /\ arrays' = [arrays EXCEPT ![c][k] = v]
              /\ _futures' = after.queue
              /\ ret' = after.emitted
        /\ lastOp' = [op |-> "setitem", c |-> c, k |-> k]
        /\ raised' = "none"
        /\ UNCHANGED <<contextFixed, pc, fi>>

\* del context[k]: ChainMap deletes from the own map and raises KeyError when
\* the own map has no k
__delitem__ ==
    \E c \in Contexts, k \in ContextKeys :
        /\ CanQueue
        /\ LET emit == get(c, k) # NULL
               sig == [queue |-> _futures, emitted |-> NoEmission]
           IN IF arrays[c][k] = NULL
              THEN /\ raised' = "KeyError"
                   /\ ret' = NoEmission
                   /\ UNCHANGED <<arrays, _futures>>
              ELSE LET after == IF emit THEN changed_emit(c, {k}, pc, sig) ELSE sig
                   IN /\ arrays' = [arrays EXCEPT ![c][k] = NULL]
                      /\ _futures' = after.queue
                      /\ ret' = after.emitted
                      /\ raised' = "none"
        /\ lastOp' = [op |-> "delitem", c |-> c, k |-> k]
        /\ UNCHANGED <<contextFixed, pc, fi>>

\* parent.new_child(): a context with a new own map before the maps of the
\* parent; the changed of the parent is connected to its changed
new_child ==
    /\ fi = 0
    /\ fi' = 1
    /\ arrays' = [arrays EXCEPT ![2] = [k \in ContextKeys |-> NULL]]
    /\ ret' = NoEmission
    /\ lastOp' = [op |-> "new_child", c |-> 1, k |-> ""]
    /\ raised' = "none"
    /\ UNCHANGED <<contextFixed, pc, _futures>>

\* with context.buffered_changes(): the block is entered, changed is paused;
\* blocks of one context are not nested
buffered_changes_enter ==
    \E c \in Contexts :
        /\ ~pc[c]
        /\ pc' = [pc EXCEPT ![c] = TRUE]
        /\ ret' = NoEmission
        /\ lastOp' = [op |-> "enter", c |-> c, k |-> ""]
        /\ raised' = "none"
        /\ UNCHANGED <<contextFixed, arrays, fi, _futures>>

\* the block is left: changed is resumed with the reducer; an empty queue
\* emits nothing, any other one its reduction
buffered_changes_exit ==
    \E c \in Contexts :
        /\ pc[c]
        /\ pc' = [pc EXCEPT ![c] = FALSE]
        /\ LET sig == [queue |-> [_futures EXCEPT ![c] = <<>>], emitted |-> NoEmission]
               after == IF _futures[c] = <<>> THEN sig
                        ELSE changed_emit(c, Union(_futures[c]), pc', sig)
           IN /\ _futures' = after.queue
              /\ ret' = after.emitted
        /\ lastOp' = [op |-> "exit", c |-> c, k |-> ""]
        /\ raised' = "none"
        /\ UNCHANGED <<contextFixed, arrays, fi>>

\* the value a context shows for the key of the operation before the step
SeenBefore(c, k) ==
    IF c = 2 /\ arrays[2][k] # NULL THEN arrays[2][k] ELSE arrays[1][k]

\* the step has emitted changed with {k} on context c and nothing else: its
\* listeners have received {k}, or, its signal being paused, {k} was queued
EmitsChanged(c, k) ==
    IF pc[c] THEN _futures'[c] = Append(_futures[c], {k}) /\ ret'[c] = <<>>
    ELSE ret'[c] = <<{k}>> /\ _futures'[c] = _futures[c]

\* the step has emitted nothing on context c
EmitsNothing(c) == ret'[c] = <<>> /\ _futures'[c] = _futures[c]

\* C29: setting k to v emits changed with {k} exactly when v is not the
\* object the context shows for k through its maps, a key no map has
\* included; deleting k emits changed with {k} exactly when the deletion
\* succeeds, and a deletion that fails, the key being in no map or in a map of
\* the parent only, emits nothing.
C29_EmitsExactlyOnChange ==
    [][LET c == lastOp'.c
           k == lastOp'.k
       IN /\ lastOp'.op = "setitem" =>
                IF SeenBefore(c, k) # arrays'[c][k] THEN EmitsChanged(c, k)
                ELSE EmitsNothing(c)
          /\ lastOp'.op = "delitem" =>
                IF arrays[c][k] # NULL
                THEN raised' = "none" /\ arrays'[c][k] = NULL /\ EmitsChanged(c, k)
                ELSE raised' = "KeyError" /\ arrays' = arrays /\ EmitsNothing(c)
      ]_vars

\* a key of the parent was deleted on the child, which has failed and has
\* emitted nothing; and a key was set to an equal object that is not the one
\* it had, which has emitted
C29_Witness ==
    \/ /\ lastOp.op = "delitem"
       /\ lastOp.c = 2
       /\ raised = "KeyError"
       /\ arrays[1][lastOp.k] # NULL
       /\ ret = NoEmission
    \/ /\ lastOp.op = "setitem"
       /\ lastOp.c = 2
       /\ arrays[1][lastOp.k] = "o1"
       /\ arrays[2][lastOp.k] = "o2"
       /\ ret[2] = <<{lastOp.k}>>

\* what C30 says of the parent and the child, and of the changes inside a
\* block: an emission of the parent is emitted by the child as well (held
\* back when the child is in a block), an operation on the child emits nothing
\* on the parent, and inside a block of the context nothing is emitted
ChildFollowsParentHeldInBlock ==
    LET c == lastOp'.c
    IN /\ (fi = 1 /\ ret'[1] # <<>>) =>
            IF pc'[2] THEN ret'[2] = <<>> /\ _futures'[2] = _futures[2] \o ret'[1]
            ELSE ret'[2] = ret'[1]
       /\ c = 2 => EmitsNothing(1)
       /\ (lastOp'.op \in {"setitem", "delitem"} /\ pc[c]) => ret'[c] = <<>>

\* C30 as stated: every emission of the parent is emitted by the child, a
\* change on the child is not emitted by the parent, inside buffered_changes
\* emissions are held back, and when the block is left one emission with the
\* union of all changed keys is made.
C30_ChildFollowsBlockEmitsOnce ==
    [][/\ ChildFollowsParentHeldInBlock
       /\ lastOp'.op = "exit" =>
            /\ ret'[lastOp'.c] = <<Union(_futures[lastOp'.c])>>
            /\ _futures'[lastOp'.c] = <<>>
      ]_vars

\* C30, amended: as stated, but when the block is left one emission with the
\* union of the changed keys is made if a change was held back in the block,
\* and none if no change was.
C30_ChildFollowsBlockEmitsOnceIfChanged ==
    [][/\ ChildFollowsParentHeldInBlock
       /\ lastOp'.op = "exit" =>
            /\ ret'[lastOp'.c] = IF _futures[lastOp'.c] = <<>> THEN <<>>
                                  ELSE <<Union(_futures[lastOp'.c])>>
            /\ _futures'[lastOp'.c] = <<>>
      ]_vars

\* a block of the parent in which both keys were changed was left: the parent
\* and the child have each emitted the two keys once
C30_Witness ==
    /\ lastOp.op = "exit"
    /\ lastOp.c = 1
    /\ fi = 1
    /\ ret[1] = <<{"a", "b"}>>
    /\ ret[2] = <<{"a", "b"}>>

Next ==
    \/ prepare_sequence
    \/ new_array
    \/ frameReady
    \/ reset
    \/ flush
    \/ flush_result
    \/ flush_return
    \/ WriteCompletes
    \/ WriteFails

Spec == Init /\ [][Next]_vars

\* prepare_sequence and _build_dims applied to one description
NextDims ==
    \/ call_prepare_sequence
    \/ call_build_dims
    \/ call_create_spec
    \/ call_group_meta

SpecDims == InitDims /\ [][NextDims]_vars

\* position_sizes, jagged_sizes and _build_dims applied to one description
NextSizes ==
    \/ call_position_sizes
    \/ call_jagged_sizes
    \/ call_build_dims_of_sizes

SpecSizes == InitSizes /\ [][NextSizes]_vars
NextLocation ==
    \/ call_group_path
    \/ call_path_kvstore

SpecLocation == InitLocation /\ [][NextLocation]_vars
NextCreate == call_create_zarr3

SpecCreate == InitCreate /\ [][NextCreate]_vars
NextAppend ==
    \/ resize
    \/ ResizeCompletes
    \/ resize_result
    \/ append_write
    \/ AppendWriteCompletes
    \/ AppendWriteFails
    \/ wait_begin
    \/ wait_result
    \/ wait_end

SpecAppend == InitAppend /\ [][NextAppend]_vars
NextContext ==
    \/ __setitem__
    \/ __delitem__
    \/ new_child
    \/ buffered_changes_enter
    \/ buffered_changes_exit

SpecContext == InitContext /\ [][NextContext]_vars
====
